---- MODULE Spec2Model ----
(***************************************************************************)
(* Model of train_lgbm.py: the command-line entry point and the one linear *)
(* procedure fit_sklearn_crossvalidator.  Every statement that calls a     *)
(* library (file system, Spark, scikit-learn, MLflow) is a step that       *)
(* either succeeds or raises; a raise unwinds to the top level, leaving    *)
(* the `with mlflow.start_run()` block on the way when it is inside it.    *)
(***************************************************************************)
EXTENDS Integers, Sequences, FiniteSets, TLC

VARIABLES
    pc,             \* the statement about to be executed
    argv,           \* the command line: each option absent ({}) or given ({v})
    args,           \* the namespace parse_args returns
    config_file,    \* what yaml.full_load yields for the file named by -c
    loaded_config,  \* local: the loaded configuration
    features,       \* local: loaded_config['features']
    target,         \* local: loaded_config['target']
    loans_df,       \* local: rows read from the parquet location
    train_df,       \* local: training partition
    test_df,        \* local: test partition
    param_grid,     \* local: the dict handed to RandomizedSearchCV
    cvModel,        \* local: the fitted search
    test_roc,       \* local: roc_auc_score of the test predictions
    pending,        \* keys of cvModel.best_params_ the for loop has yet to log
    mlflow,         \* the tracker: the runs it holds and the active one
    events,         \* statements attempted so far in this process, in order
    failedAt,       \* {} or {the statement that raised}
    result,         \* {} or {the value fit_sklearn_crossvalidator returned}
    splitMemo,      \* Spark's seeded generator: the split it yields per input
    splits,         \* the split of every process run so far
    invocation      \* number of the process being run

vars == <<pc, argv, args, config_file, loaded_config, features, target,
          loans_df, train_df, test_df, param_grid, cvModel, test_roc, pending,
          mlflow, events, failedAt, result, splitMemo, splits, invocation>>

(***************************************************************************)
(* Bounds of the model.                                                    *)
(***************************************************************************)
NRows == 2
MaxOpts == 3

(***************************************************************************)
(* Constants of the program.                                               *)
(***************************************************************************)
\* split proportions are written in tenths: 8 stands for 0.8
DefaultSplitProp == 8
DefaultConfig == "config.yaml"
n_iter == 100
ClassifierTypeName == "LGBMClassifier"

URIs == {"loans_a", "loans_b"}
ConfigPaths == {"other.yaml"}

TopKeys == {"features", "target", "parameter_space"}
SpaceKeys == {"max_depth", "gamma", "min_child_weight", "learning_rate",
              "colsample_bytree", "num_leaves"}
GridKeys == {"__max_depth", "__min_split_gain", "__min_child_weight",
             "__learning_rate", "__colsample_bytree", "__num_leaves"}

Min(a, b) == IF a < b THEN a ELSE b

RECURSIVE Product(_, _)
Product(f, S) ==
    IF S = {} THEN 1
    ELSE LET k == CHOOSE x \in S : TRUE
         IN  Cardinality(f[k]) * Product(f, S \ {k})

TheOne(S) == CHOOSE x \in S : TRUE

Restrict(f, D) == [k \in D |-> f[k]]

(***************************************************************************)
(* Inputs: command lines, configuration files, datasets.                   *)
(***************************************************************************)
\* a parquet location holds NRows rows
Rows(uri) == {<<uri, i>> : i \in 1..NRows}

\* a parameter_space whose list for key k has sizes[k] candidate values
ParamSpace(sizes) == [k \in SpaceKeys |-> {<<k, i>> : i \in 1..sizes[k]}]

\* a configuration with every required key, and possibly a key the code
\* does not know ("seed")
FullConfig(sizes, extra) ==
    [k \in TopKeys \cup DOMAIN extra |->
        CASE k = "features" -> <<"f1", "f2">>
          [] k = "target" -> <<"target">>
          [] k = "parameter_space" -> ParamSpace(sizes)
          [] OTHER -> extra[k]]

OneEach == [k \in SpaceKeys |-> 1]

NoExtra == [k \in {} |-> 0]
ExtraSeed == [k \in {"seed"} |-> 11]

\* configurations that lack one required key, at the top level or inside
\* parameter_space
ConfigsMissingKey ==
    {Restrict(FullConfig(OneEach, NoExtra), TopKeys \ {k}) : k \in TopKeys}
    \cup {[FullConfig(OneEach, NoExtra) EXCEPT !["parameter_space"] =
              Restrict(@, SpaceKeys \ {k})] : k \in SpaceKeys}

\* each list of parameter_space holds one candidate or MaxOpts candidates
ConfigsSearch ==
    {FullConfig(sizes, NoExtra) : sizes \in [SpaceKeys -> {1, MaxOpts}]}

Argvs(us, cs, ss) == [u : us, c : cs, s : ss]

(***************************************************************************)
(* The MLflow tracker, as far as the fluent API used by the script goes.   *)
(***************************************************************************)
NewRun == [status |-> "RUNNING", metrics |-> <<>>, params |-> <<>>,
           artifacts |-> <<>>]

start_run(m) == [runs |-> Append(m.runs, NewRun), active |-> Len(m.runs) + 1]

end_run(m, status) ==
    IF m.active = 0 THEN m
    ELSE [runs |-> [m.runs EXCEPT ![m.active].status = status], active |-> 0]

\* a fluent log call writes to the active run, starting one when none is
\* active
Log(m, kind, key, value) ==
    LET m1 == IF m.active = 0 THEN start_run(m) ELSE m
    IN  [m1 EXCEPT !.runs[m1.active][kind] = Append(@, <<key, value>>)]

(***************************************************************************)
(* The process: statements, events, raising.                               *)
(***************************************************************************)
Ev(op, key) == [op |-> op, key |-> key]

\* the statements inside `with mlflow.start_run() as run:`
WithBlock == {"log_training_nrows", "log_test_nrows", "print_counts",
              "select_train", "select_test", "build_param_grid",
              "log_features", "log_split_prop", "fit", "log_model",
              "predict", "roc_auc_score", "log_metrics", "log_best_params",
              "return"}

\* the statements of the script, in the order the code runs them
StatementOrder ==
    <<"parse_args", "open_config", "get_features", "get_target",
      "read_parquet", "randomSplit", "start_run", "log_training_nrows",
      "log_test_nrows", "print_counts", "select_train", "select_test",
      "build_param_grid", "log_features", "log_split_prop", "fit",
      "log_model", "predict", "roc_auc_score", "log_metrics",
      "log_best_params", "return", "done">>

Succ(order, step) ==
    order[(CHOOSE i \in DOMAIN order : order[i] = step) + 1]

\* log_param("features"), log_param("split_prop") moved below the fit
StatementOrder_params_after_fit ==
    <<"parse_args", "open_config", "get_features", "get_target",
      "read_parquet", "randomSplit", "start_run", "log_training_nrows",
      "log_test_nrows", "print_counts", "select_train", "select_test",
      "build_param_grid", "fit", "log_features", "log_split_prop",
      "log_model", "predict", "roc_auc_score", "log_metrics",
      "log_best_params", "return", "done">>

NextStep_params_after_fit(step) == Succ(StatementOrder_params_after_fit, step)

NextStep(step) == Succ(StatementOrder, step)

\* the statement at pc is attempted and succeeds
Advance(ev) ==
    /\ pc' = NextStep(pc)
    /\ events' = Append(events, ev)

\* the statement at pc raises and is tried again
Raise_and_retry(ev) ==
    /\ events' = Append(events, ev)
    /\ UNCHANGED <<pc, failedAt, mlflow, argv, args, config_file,
                   loaded_config, features, target, loans_df, train_df,
                   test_df, param_grid, cvModel, test_roc, pending, result,
                   splitMemo, splits, invocation>>

\* the statement at pc raises and the run is not ended on the way out
Raise_run_left_open(ev) ==
    /\ pc' = "raised"
    /\ failedAt' = {pc}
    /\ events' = Append(events, ev)
    /\ UNCHANGED <<mlflow, argv, args, config_file, loaded_config, features,
                   target, loans_df, train_df, test_df, param_grid, cvModel,
                   test_roc, pending, result, splitMemo, splits, invocation>>

\* the statement at pc is attempted and raises: nothing handles it, the
\* with block (when the statement is inside it) ends the run as FAILED on
\* the way out, and the process terminates with the error
Raise(ev) ==
    /\ pc' = "raised"
    /\ failedAt' = {pc}
    /\ IF pc \in WithBlock
       THEN /\ mlflow' = end_run(mlflow, "FAILED")
            /\ events' = events \o <<ev, Ev("end_run", "FAILED")>>
       ELSE /\ mlflow' = mlflow
            /\ events' = Append(events, ev)
    /\ UNCHANGED <<argv, args, config_file, loaded_config, features, target,
                   loans_df, train_df, test_df, param_grid, cvModel, test_roc,
                   pending, result, splitMemo, splits, invocation>>

NoArgs == [loans_parquet_uri |-> {}, config |-> "", split_prop |-> 0]

InitProcess ==
    /\ pc = "parse_args"
    /\ args = NoArgs
    /\ loaded_config = <<>>
    /\ features = <<>>
    /\ target = <<>>
    /\ loans_df = {}
    /\ train_df = {}
    /\ test_df = {}
    /\ param_grid = <<>>
    /\ cvModel = {}
    /\ test_roc = {}
    /\ pending = <<>>
    /\ events = <<>>
    /\ failedAt = {}
    /\ result = {}

(***************************************************************************)
(* __main__                                                                *)
(***************************************************************************)
parse_args ==
    /\ pc = "parse_args"
    /\ args' = [loans_parquet_uri |-> argv.u,
                config |-> IF argv.c = {} THEN DefaultConfig
                           ELSE TheOne(argv.c),
                split_prop |-> IF argv.s = {} THEN DefaultSplitProp
                               ELSE TheOne(argv.s)]
    /\ Advance(Ev("parse_args", ""))
    /\ UNCHANGED <<argv, config_file, loaded_config, features, target,
                   loans_df, train_df, test_df, param_grid, cvModel, test_roc,
                   pending, mlflow, failedAt, result, splitMemo, splits,
                   invocation>>

(***************************************************************************)
(* fit_sklearn_crossvalidator                                              *)
(***************************************************************************)
open_config ==
    /\ pc = "open_config"
    /\ \/ /\ loaded_config' = config_file
          /\ Advance(Ev("open_config", ""))
          /\ UNCHANGED <<argv, args, config_file, features, target, loans_df,
                         train_df, test_df, param_grid, cvModel, test_roc,
                         pending, mlflow, failedAt, result, splitMemo, splits,
                         invocation>>
       \/ Raise(Ev("open_config", ""))

get_features ==
    /\ pc = "get_features"
    /\ IF "features" \in DOMAIN loaded_config
       THEN /\ features' = loaded_config["features"]
            /\ Advance(Ev("get_features", ""))
            /\ UNCHANGED <<argv, args, config_file, loaded_config, target,
                           loans_df, train_df, test_df, param_grid, cvModel,
                           test_roc, pending, mlflow, failedAt, result,
                           splitMemo, splits, invocation>>
       ELSE Raise(Ev("get_features", ""))

\* a missing `target` is tolerated (an empty list is used)
get_target_lenient ==
    /\ pc = "get_target"
    /\ target' = IF "target" \in DOMAIN loaded_config
                 THEN loaded_config["target"] ELSE <<>>
    /\ pc' = "read_parquet"
    /\ events' = Append(events, Ev("get_target", ""))
    /\ UNCHANGED <<argv, args, config_file, loaded_config, features,
                   loans_df, train_df, test_df, param_grid, cvModel,
                   test_roc, pending, mlflow, failedAt, result,
                   splitMemo, splits, invocation>>

get_target ==
    /\ pc = "get_target"
    /\ IF "target" \in DOMAIN loaded_config
       THEN /\ target' = loaded_config["target"]
            /\ Advance(Ev("get_target", ""))
            /\ UNCHANGED <<argv, args, config_file, loaded_config, features,
                           loans_df, train_df, test_df, param_grid, cvModel,
                           test_roc, pending, mlflow, failedAt, result,
                           splitMemo, splits, invocation>>
       ELSE Raise(Ev("get_target", ""))

seed == 7

read_parquet ==
    /\ pc = "read_parquet"
    /\ \/ /\ args.loans_parquet_uri # {}
          /\ loans_df' = Rows(TheOne(args.loans_parquet_uri))
          /\ Advance(Ev("read_parquet", ""))
          /\ UNCHANGED <<argv, args, config_file, loaded_config, features,
                         target, train_df, test_df, param_grid, cvModel,
                         test_roc, pending, mlflow, failedAt, result,
                         splitMemo, splits, invocation>>
       \/ Raise(Ev("read_parquet", ""))

\* randomSplit with seed s: the generator yields one split per (dataset,
\* weights, seed), whatever it is
RandomSplitWith(s) ==
    /\ pc = "randomSplit"
    /\ LET uri == TheOne(args.loans_parquet_uri)
           weights == <<args.split_prop, 10 - args.split_prop>>
           known == {e \in splitMemo :
                        e.uri = uri /\ e.weights = weights /\ e.seed = s}
       IN  \E tr \in IF known = {} THEN SUBSET loans_df
                     ELSE {e.train : e \in known} :
              /\ train_df' = tr
              /\ test_df' = loans_df \ tr
              /\ splitMemo' = splitMemo \cup
                     {[uri |-> uri, weights |-> weights, seed |-> s,
                       train |-> tr]}
              /\ splits' = Append(splits,
                     [uri |-> uri, split_prop |-> args.split_prop,
                      train |-> tr, test |-> loans_df \ tr])
    /\ Advance(Ev("randomSplit", ""))
    /\ UNCHANGED <<argv, args, config_file, loaded_config, features, target,
                   loans_df, param_grid, cvModel, test_roc, pending, mlflow,
                   failedAt, result, invocation>>

\* the seed is taken from the configuration when it has one
randomSplit_config_seed ==
    RandomSplitWith(IF "seed" \in DOMAIN loaded_config
                    THEN loaded_config["seed"] ELSE seed)

randomSplit == RandomSplitWith(seed)

\* no run is started: the statements of the block run without one
start_run_skipped ==
    /\ pc = "start_run"
    /\ pc' = "log_training_nrows"
    /\ UNCHANGED <<events, mlflow, argv, args, config_file, loaded_config,
                   features, target, loans_df, train_df, test_df, param_grid,
                   cvModel, test_roc, pending, failedAt, result, splitMemo,
                   splits, invocation>>

start_run_step ==
    /\ pc = "start_run"
    /\ \/ /\ mlflow' = start_run(mlflow)
          /\ Advance(Ev("start_run", ""))
          /\ UNCHANGED <<argv, args, config_file, loaded_config, features,
                         target, loans_df, train_df, test_df, param_grid,
                         cvModel, test_roc, pending, failedAt, result,
                         splitMemo, splits, invocation>>
       \/ Raise(Ev("start_run", ""))

\* a statement that logs one item to the tracker, or raises
LogStep(step, op, kind, key, value) ==
    /\ pc = step
    /\ \/ /\ mlflow' = Log(mlflow, kind, key, value)
          /\ Advance(Ev(op, key))
          /\ UNCHANGED <<argv, args, config_file, loaded_config, features,
                         target, loans_df, train_df, test_df, param_grid,
                         cvModel, test_roc, pending, failedAt, result,
                         splitMemo, splits, invocation>>
       \/ Raise(Ev(op, key))

\* a statement that changes nothing the model keeps, or raises
PlainStep(step) ==
    /\ pc = step
    /\ \/ /\ Advance(Ev(step, ""))
          /\ UNCHANGED <<argv, args, config_file, loaded_config, features,
                         target, loans_df, train_df, test_df, param_grid,
                         cvModel, test_roc, pending, mlflow, failedAt, result,
                         splitMemo, splits, invocation>>
       \/ Raise(Ev(step, ""))

log_training_nrows ==
    LogStep("log_training_nrows", "log_metric", "metrics", "training_nrows",
            Cardinality(train_df))

log_test_nrows ==
    LogStep("log_test_nrows", "log_metric", "metrics", "test_nrows",
            Cardinality(test_df))

print_counts == PlainStep("print_counts")

select_train == PlainStep("select_train")

select_test == PlainStep("select_test")

\* min_split_gain takes the list of min_child_weight
ParamGrid_wrong_list(param_space) ==
    ("__max_depth" :> param_space["max_depth"])
    @@ ("__min_split_gain" :> param_space["min_child_weight"])
    @@ ("__min_child_weight" :> param_space["min_child_weight"])
    @@ ("__learning_rate" :> param_space["learning_rate"])
    @@ ("__colsample_bytree" :> param_space["colsample_bytree"])
    @@ ("__num_leaves" :> param_space["num_leaves"])

\* the dict literal handed to RandomizedSearchCV
ParamGrid(param_space) ==
    ("__max_depth" :> param_space["max_depth"])
    @@ ("__min_split_gain" :> param_space["gamma"])
    @@ ("__min_child_weight" :> param_space["min_child_weight"])
    @@ ("__learning_rate" :> param_space["learning_rate"])
    @@ ("__colsample_bytree" :> param_space["colsample_bytree"])
    @@ ("__num_leaves" :> param_space["num_leaves"])

\* missing lists of parameter_space are tolerated (taken as empty)
build_param_grid_lenient ==
    /\ pc = "build_param_grid"
    /\ LET ps == IF "parameter_space" \in DOMAIN loaded_config
                 THEN loaded_config["parameter_space"] ELSE <<>>
       IN  param_grid' = ParamGrid([k \in SpaceKeys |->
                             IF k \in DOMAIN ps THEN ps[k] ELSE {}])
    /\ pc' = "log_features"
    /\ events' = Append(events, Ev("build_param_grid", ""))
    /\ UNCHANGED <<argv, args, config_file, loaded_config, features,
                   target, loans_df, train_df, test_df, cvModel,
                   test_roc, pending, mlflow, failedAt, result,
                   splitMemo, splits, invocation>>

build_param_grid ==
    /\ pc = "build_param_grid"
    /\ IF /\ "parameter_space" \in DOMAIN loaded_config
          /\ SpaceKeys \subseteq DOMAIN loaded_config["parameter_space"]
       THEN /\ param_grid' = ParamGrid(loaded_config["parameter_space"])
            /\ Advance(Ev("build_param_grid", ""))
            /\ UNCHANGED <<argv, args, config_file, loaded_config, features,
                           target, loans_df, train_df, test_df, cvModel,
                           test_roc, pending, mlflow, failedAt, result,
                           splitMemo, splits, invocation>>
       ELSE Raise(Ev("build_param_grid", ""))

log_features ==
    LogStep("log_features", "log_param", "params", "features", features)

log_split_prop ==
    LogStep("log_split_prop", "log_param", "params", "split_prop",
            args.split_prop)

\* the order in which cvModel.best_params_ yields its keys
BestParamKeys == <<"__colsample_bytree", "__learning_rate", "__max_depth",
                   "__min_child_weight", "__min_split_gain", "__num_leaves">>

\* the combinations of a grid of lists
Combinations(grid) ==
    {  ("__max_depth" :> a) @@ ("__min_split_gain" :> b)
       @@ ("__min_child_weight" :> c) @@ ("__learning_rate" :> d)
       @@ ("__colsample_bytree" :> e) @@ ("__num_leaves" :> f) :
       a \in grid["__max_depth"], b \in grid["__min_split_gain"],
       c \in grid["__min_child_weight"], d \in grid["__learning_rate"],
       e \in grid["__colsample_bytree"], f \in grid["__num_leaves"]  }

\* RandomizedSearchCV(pipeline, param_grid, n_iter=n).fit: n combinations
\* of the grid are sampled without replacement (all of them when the grid
\* holds fewer), the best one is refitted
Search(grid, n, best) ==
    [best_params |-> best,
     best_score |-> "mean_cv_roc_auc",
     best_estimator |-> [fitted |-> TRUE, params |-> best],
     n_candidates |-> Min(n, Product(grid, DOMAIN grid))]

fit ==
    /\ pc = "fit"
    /\ \/ /\ \E best \in Combinations(param_grid) :
                cvModel' = {Search(param_grid, n_iter, best)}
          /\ pending' = BestParamKeys
          /\ Advance(Ev("fit", ""))
          /\ UNCHANGED <<argv, args, config_file, loaded_config, features,
                         target, loans_df, train_df, test_df, param_grid,
                         test_roc, mlflow, failedAt, result, splitMemo,
                         splits, invocation>>
       \/ Raise(Ev("fit", ""))

\* the pipeline as constructed is logged, not the refitted best one
LoggedModel_unfitted == [fitted |-> FALSE, params |-> <<>>]

\* what mlflow.sklearn.log_model is given: the estimator and the path
LoggedModel == TheOne(cvModel).best_estimator

ArtifactPath == "best-5-fold-cross-validated-" \o ClassifierTypeName

log_model ==
    LogStep("log_model", "log_model", "artifacts", ArtifactPath, LoggedModel)

predict == PlainStep("predict")

roc_auc_score ==
    /\ pc = "roc_auc_score"
    /\ \/ /\ test_roc' = {"test_roc_auc"}
          /\ Advance(Ev("roc_auc_score", ""))
          /\ UNCHANGED <<argv, args, config_file, loaded_config, features,
                         target, loans_df, train_df, test_df, param_grid,
                         cvModel, pending, mlflow, failedAt, result,
                         splitMemo, splits, invocation>>
       \/ Raise(Ev("roc_auc_score", ""))

log_metrics ==
    /\ pc = "log_metrics"
    /\ \/ /\ mlflow' = Log(Log(mlflow, "metrics", "ROC_AUC_train",
                               TheOne(cvModel).best_score),
                           "metrics", "ROC_AUC_test", TheOne(test_roc))
          /\ Advance(Ev("log_metrics", "ROC_AUC"))
          /\ UNCHANGED <<argv, args, config_file, loaded_config, features,
                         target, loans_df, train_df, test_df, param_grid,
                         cvModel, test_roc, pending, failedAt, result,
                         splitMemo, splits, invocation>>
       \/ Raise(Ev("log_metrics", "ROC_AUC"))

\* one iteration of `for key in cvModel.best_params_`
log_best_params ==
    /\ pc = "log_best_params"
    /\ pending # <<>>
    /\ LET key == Head(pending)
       IN  \/ /\ mlflow' = Log(mlflow, "params", key,
                               TheOne(cvModel).best_params[key])
              /\ pending' = Tail(pending)
              /\ events' = Append(events, Ev("log_param", key))
              /\ pc' = IF Tail(pending) = <<>> THEN NextStep(pc) ELSE pc
              /\ UNCHANGED <<argv, args, config_file, loaded_config,
                             features, target, loans_df, train_df, test_df,
                             param_grid, cvModel, test_roc, failedAt, result,
                             splitMemo, splits, invocation>>
           \/ Raise(Ev("log_param", key))

\* print the run info, return cvModel; leaving the with block ends the run
return ==
    /\ pc = "return"
    /\ result' = cvModel
    /\ mlflow' = end_run(mlflow, "FINISHED")
    /\ events' = events \o <<Ev("return", ""), Ev("end_run", "FINISHED")>>
    /\ pc' = NextStep(pc)
    /\ UNCHANGED <<argv, args, config_file, loaded_config, features, target,
                   loans_df, train_df, test_df, param_grid, cvModel, test_roc,
                   pending, failedAt, splitMemo, splits, invocation>>

(***************************************************************************)
(* Specifications.                                                         *)
(***************************************************************************)
NoTracker == [runs |-> <<>>, active |-> 0]

\* one process; any command line, a complete configuration or one that
\* lacks a required key
Init ==
    /\ InitProcess
    /\ argv \in Argvs({{}, {"loans_a"}}, {{}} \cup {{c} : c \in ConfigPaths},
                      {{}, {5}})
    /\ config_file \in {FullConfig(OneEach, NoExtra)} \cup ConfigsMissingKey
    /\ mlflow = NoTracker
    /\ splitMemo = {}
    /\ splits = <<>>
    /\ invocation = 1

Next ==
    \/ parse_args
    \/ open_config
    \/ get_features
    \/ get_target
    \/ read_parquet
    \/ randomSplit
    \/ start_run_step
    \/ log_training_nrows
    \/ log_test_nrows
    \/ print_counts
    \/ select_train
    \/ select_test
    \/ build_param_grid
    \/ log_features
    \/ log_split_prop
    \/ fit
    \/ log_model
    \/ predict
    \/ roc_auc_score
    \/ log_metrics
    \/ log_best_params
    \/ return

Spec == Init /\ [][Next]_vars

\* one process on a fixed command line; the lists of parameter_space vary
InitSearch ==
    /\ InitProcess
    /\ argv = [u |-> {"loans_a"}, c |-> {}, s |-> {}]
    /\ config_file \in ConfigsSearch
    /\ mlflow = NoTracker
    /\ splitMemo = {[uri |-> "loans_a",
                     weights |-> <<DefaultSplitProp, 10 - DefaultSplitProp>>,
                     seed |-> seed, train |-> Rows("loans_a") \ {<<"loans_a", 1>>}]}
    /\ splits = <<>>
    /\ invocation = 1

SpecSearch == InitSearch /\ [][Next]_vars

\* the script is run a second time, on the same tracker and the same Spark
Reinvoke ==
    /\ pc \in {"done", "raised"}
    /\ invocation = 1
    /\ invocation' = invocation + 1
    /\ argv' \in Argvs({{u} : u \in URIs}, {{}}, {{}, {5}})
    /\ config_file' \in {FullConfig(OneEach, NoExtra),
                         FullConfig(OneEach, ExtraSeed)}
    /\ mlflow' = [mlflow EXCEPT !.active = 0]
    /\ pc' = "parse_args"
    /\ args' = NoArgs
    /\ loaded_config' = <<>>
    /\ features' = <<>>
    /\ target' = <<>>
    /\ loans_df' = {}
    /\ train_df' = {}
    /\ test_df' = {}
    /\ param_grid' = <<>>
    /\ cvModel' = {}
    /\ test_roc' = {}
    /\ pending' = <<>>
    /\ events' = <<>>
    /\ failedAt' = {}
    /\ result' = {}
    /\ UNCHANGED <<splitMemo, splits>>

InitRepeat ==
    /\ InitProcess
    /\ argv \in Argvs({{u} : u \in URIs}, {{}}, {{}, {5}})
    /\ config_file \in {FullConfig(OneEach, NoExtra),
                        FullConfig(OneEach, ExtraSeed)}
    /\ mlflow = NoTracker
    /\ splitMemo = {}
    /\ splits = <<>>
    /\ invocation = 1

NextRepeat == Next \/ Reinvoke

SpecRepeat == InitRepeat /\ [][NextRepeat]_vars

(***************************************************************************)
(* Properties.                                                             *)
(***************************************************************************)
LogOps == {"log_metric", "log_metrics", "log_param", "log_model"}

IsLog(ev) == ev.op \in LogOps

\* statement op was attempted before position i of the events
Before(i, op) == \E j \in 1..(i - 1) : events[j].op = op

Attempted(op) == \E i \in DOMAIN events : events[i].op = op

\* how many entries of a logged sequence carry the key
Times(entries, key) == Cardinality({i \in DOMAIN entries : entries[i][1] = key})

Holds(entries, key, value) ==
    \E i \in DOMAIN entries : entries[i][1] = key /\ entries[i][2] = value

HasAllKeys(cfg) ==
    /\ TopKeys \subseteq DOMAIN cfg
    /\ SpaceKeys \subseteq DOMAIN cfg["parameter_space"]

NothingLoaded ==
    /\ ~Attempted("read_parquet")
    /\ ~Attempted("randomSplit")
    /\ ~Attempted("start_run")
    /\ loans_df = {}
    /\ splits = <<>>
    /\ mlflow.runs = <<>>

\* C1: when the configuration has no `target` key the job never returns, the
\* only statements that can have raised are the configuration ones, and the
\* dataset read, the split and the opening of a tracker run are never reached.
C1_MissingTargetFailsBeforeLoad ==
    "target" \notin DOMAIN config_file =>
        /\ NothingLoaded
        /\ pc # "done"
        /\ failedAt \subseteq {"open_config", "get_features", "get_target"}

C1_Witness ==
    /\ "target" \notin DOMAIN config_file
    /\ pc = "raised"
    /\ failedAt = {"get_target"}
    /\ loaded_config = config_file

\* C2 as stated: a configuration lacking any required key (top level or one
\* of the six lists of parameter_space) fails before the dataset is loaded,
\* before the split and before anything is logged.
C2_EveryKeyCheckedAtParse ==
    ~HasAllKeys(config_file) =>
        /\ loans_df = {}
        /\ splits = <<>>
        /\ mlflow.runs = <<>>
        /\ pc # "done"

\* C2 amended: lacking `features` or `target` fails before the dataset is
\* loaded; lacking `parameter_space` or one of its lists fails only at the
\* parameter_space lookup inside the run, after the load, the split and the
\* logging of training_nrows and test_nrows, and before anything else is
\* logged or fitted; the run is then closed as FAILED.
C2_MissingKeyFailurePoint ==
    /\ ~({"features", "target"} \subseteq DOMAIN config_file) =>
           /\ NothingLoaded
           /\ pc # "done"
    /\ ({"features", "target"} \subseteq DOMAIN config_file
           /\ ~HasAllKeys(config_file)) =>
           /\ pc # "done"
           /\ ~Attempted("log_param")
           /\ ~Attempted("fit")
           /\ ~Attempted("log_model")
           /\ failedAt = {"build_param_grid"} =>
                  /\ Attempted("read_parquet")
                  /\ Attempted("randomSplit")
                  /\ Len(mlflow.runs) = 1
                  /\ mlflow.runs[1].status = "FAILED"
                  /\ Len(mlflow.runs[1].metrics) = 2
                  /\ Times(mlflow.runs[1].metrics, "training_nrows") = 1
                  /\ Times(mlflow.runs[1].metrics, "test_nrows") = 1
                  /\ mlflow.runs[1].params = <<>>
                  /\ mlflow.runs[1].artifacts = <<>>

C2_Witness ==
    /\ "parameter_space" \in DOMAIN config_file
    /\ "gamma" \notin DOMAIN config_file["parameter_space"]
    /\ failedAt = {"build_param_grid"}
    /\ pc = "raised"

\* C3: a command line without -u is rejected at argument parsing:
\* fit_sklearn_crossvalidator is not entered (no configuration read, no
\* dataset load, no tracker run) with an absent dataset location.
C3_UriRequired ==
    argv.u = {} =>
        /\ pc \in {"parse_args", "raised"}
        /\ ~Attempted("open_config")
        /\ loaded_config = <<>>
        /\ NothingLoaded

\* one run at most, and every log call between its start and its end
C4_RunInvariant ==
    /\ Len(mlflow.runs) <= 1
    /\ Cardinality({i \in DOMAIN events : events[i].op = "start_run"}) <= 1
    /\ \A i \in DOMAIN events :
           IsLog(events[i]) =>
               /\ Before(i, "start_run")
               /\ ~Before(i, "end_run")
    /\ \A i \in DOMAIN mlflow.runs :
           (mlflow.runs[i].metrics # <<>> \/ mlflow.runs[i].params # <<>>
               \/ mlflow.runs[i].artifacts # <<>>) => Attempted("start_run")

\* C4: at most one tracker run is created per invocation; every log call is
\* made after the run was started and before it is ended; once the run is
\* ended the tracker's record does not change.
C4_LogsInsideTheOneRun ==
    /\ []C4_RunInvariant
    /\ [][Attempted("end_run") => mlflow' = mlflow]_vars

C4_Witness ==
    /\ pc = "done"
    /\ Len(mlflow.runs) = 1
    /\ mlflow.runs[1].status = "FINISHED"
    /\ Len(mlflow.runs[1].metrics) = 4
    /\ Len(mlflow.runs[1].params) = 8
    /\ Len(mlflow.runs[1].artifacts) = 1

\* C5: when the function has returned, the one run holds, each exactly once,
\* the metrics training_nrows, test_nrows, ROC_AUC_train and ROC_AUC_test, the
\* parameters features, split_prop and the six best hyperparameters, and one
\* model artifact: the refitted best estimator of the returned search, under
\* the path named after LGBMClassifier.
C5_RunRecordOnReturn ==
    pc = "done" =>
        /\ result # {}
        /\ Len(mlflow.runs) = 1
        /\ LET r == mlflow.runs[1]
               m == TheOne(result)
           IN  /\ Len(r.metrics) = 4
               /\ \A k \in {"training_nrows", "test_nrows", "ROC_AUC_train",
                            "ROC_AUC_test"} : Times(r.metrics, k) = 1
               /\ Len(r.params) = 8
               /\ Times(r.params, "features") = 1
               /\ Times(r.params, "split_prop") = 1
               /\ Cardinality(DOMAIN m.best_params) = 6
               /\ \A k \in DOMAIN m.best_params : Times(r.params, k) = 1
               /\ Len(r.artifacts) = 1
               /\ r.artifacts[1][1] = "best-5-fold-cross-validated-LGBMClassifier"
               /\ r.artifacts[1][2] = m.best_estimator
               /\ r.artifacts[1][2].fitted
               /\ r.artifacts[1][2].params = m.best_params

C5_Witness ==
    /\ pc = "done"
    /\ result # {}
    /\ Len(mlflow.runs) = 1
    /\ Holds(mlflow.runs[1].metrics, "training_nrows", 1)
    /\ Holds(mlflow.runs[1].params, "split_prop", DefaultSplitProp)

\* no statement attempted twice; a raise ends the process without a result
C6_OnceEach ==
    /\ \A i, j \in DOMAIN events : events[i] = events[j] => i = j
    /\ failedAt # {} => (pc = "raised" /\ result = {})
    /\ pc = "raised" => failedAt # {}

C7_BestWithinDeclaredLists ==
    cvModel # {} =>
        LET m == TheOne(cvModel)
            ps == config_file["parameter_space"]
        IN  /\ m.n_candidates <= 100
            /\ m.n_candidates <= Product(ps, SpaceKeys)
            /\ m.best_params["__max_depth"] \in ps["max_depth"]
            /\ m.best_params["__min_split_gain"] \in ps["gamma"]
            /\ m.best_params["__min_child_weight"] \in ps["min_child_weight"]
            /\ m.best_params["__learning_rate"] \in ps["learning_rate"]
            /\ m.best_params["__colsample_bytree"] \in ps["colsample_bytree"]
            /\ m.best_params["__num_leaves"] \in ps["num_leaves"]
            /\ pc = "done" =>
                   /\ Len(mlflow.runs[1].params) = 2 + Cardinality(GridKeys)
                   /\ \A k \in GridKeys :
                          Holds(mlflow.runs[1].params, k, m.best_params[k])

C7_Witness ==
    /\ pc = "done"
    /\ Product(config_file["parameter_space"], SpaceKeys) > 100
    /\ TheOne(cvModel).n_candidates = 100
    /\ TheOne(cvModel).best_params["__min_split_gain"] = <<"gamma", 2>>
    /\ Holds(mlflow.runs[1].params, "__min_split_gain", <<"gamma", 2>>)

\* C8: two runs of the script on the same dataset with the same split_prop
\* get the same training and the same test partition, whatever their
\* configurations hold, and log the same training_nrows and test_nrows; every
\* split is made with seed 7.
C8_SameInputSameSplit ==
    /\ \A e \in splitMemo : e.seed = 7
    /\ \A i, j \in DOMAIN splits :
           (splits[i].uri = splits[j].uri
               /\ splits[i].split_prop = splits[j].split_prop) =>
               /\ splits[i].train = splits[j].train
               /\ splits[i].test = splits[j].test
    /\ (invocation = 2 /\ Len(splits) = 2 /\ mlflow.active # 0
           /\ splits[1].uri = splits[2].uri
           /\ splits[1].split_prop = splits[2].split_prop) =>
           LET r == mlflow.runs[mlflow.active]
           IN  \A i \in DOMAIN r.metrics :
                   /\ r.metrics[i][1] = "training_nrows" =>
                          r.metrics[i][2] = Cardinality(splits[1].train)
                   /\ r.metrics[i][1] = "test_nrows" =>
                          r.metrics[i][2] = Cardinality(splits[1].test)

C8_Witness ==
    /\ invocation = 2
    /\ Len(splits) = 2
    /\ splits[1].uri = splits[2].uri
    /\ splits[1].split_prop = splits[2].split_prop
    /\ splits[1].train # {}
    /\ splits[1].test # {}
    /\ "seed" \in DOMAIN loaded_config
    /\ mlflow.active # 0
    /\ Times(mlflow.runs[mlflow.active].metrics, "test_nrows") = 1

\* C9 as stated: nothing is logged to the tracker before the search has been
\* fitted and the test ROC-AUC has been computed.
C9_NothingLoggedBeforeEvaluation ==
    \A i \in DOMAIN mlflow.runs :
        (mlflow.runs[i].metrics # <<>> \/ mlflow.runs[i].params # <<>>
            \/ mlflow.runs[i].artifacts # <<>>) =>
            /\ cvModel # {}
            /\ test_roc # {}

\* C9 amended: training_nrows, test_nrows, features and split_prop are logged
\* before the search is fitted; the model artifact is logged after the fit and
\* before the test prediction and ROC-AUC; only ROC_AUC_train, ROC_AUC_test and
\* the best hyperparameters are logged after the test ROC-AUC was computed.
C9_LoggingOrder ==
    \A i \in DOMAIN events :
        IsLog(events[i]) =>
            /\ events[i].key \in {"training_nrows", "test_nrows", "features",
                                  "split_prop"} =>
                   (~Before(i, "fit") /\ ~Before(i, "roc_auc_score"))
            /\ events[i].op = "log_model" =>
                   /\ Before(i, "fit")
                   /\ ~Before(i, "predict")
                   /\ ~Before(i, "roc_auc_score")
            /\ (events[i].op = "log_metrics" \/ events[i].key \in GridKeys) =>
                   /\ Before(i, "fit")
                   /\ Before(i, "predict")
                   /\ Before(i, "roc_auc_score")

C9_Witness ==
    /\ pc = "done"
    /\ Attempted("log_model")
    /\ Attempted("log_metrics")
    /\ \E i \in DOMAIN events : events[i] = Ev("log_param", "__num_leaves")

\* C10: when control has left fit_sklearn_crossvalidator, by return or by an
\* error raised anywhere, no run is active and none is left RUNNING: a run
\* that was opened is FINISHED after a return and FAILED after an error.
C10_RunClosedOnExit ==
    pc \in {"done", "raised"} =>
        /\ mlflow.active = 0
        /\ \A i \in DOMAIN mlflow.runs :
               mlflow.runs[i].status =
                   (IF pc = "done" THEN "FINISHED" ELSE "FAILED")
        /\ Attempted("start_run") /\ failedAt # {"start_run"} =>
               /\ Len(mlflow.runs) = 1
               /\ Attempted("end_run")

C10_Witness ==
    /\ pc = "raised"
    /\ failedAt = {"log_model"}
    /\ Len(mlflow.runs) = 1
    /\ mlflow.runs[1].status = "FAILED"
    /\ mlflow.active = 0

====
